---- MODULE Spec2Model ----
(***************************************************************************)
(* Model of verification/verify_landing.py: run() drives a headless        *)
(* browser over landing/index.html and writes two screenshots.  The script *)
(* is a straight-line procedure inside one `with sync_playwright()` block; *)
(* every call may raise, and an exception unwinds through the `with`       *)
(* statement to the interpreter, which ends the process.                   *)
(***************************************************************************)
EXTENDS Integers, Sequences, FiniteSets

\* ------------------------------------------------------------------ bounds
\* Number of times the script is invoked in a row.
MaxRuns == 2
\* Largest scheduling delay (ms) between two calls on a loaded page.
MaxJitter == 1

\* ------------------------------------------------------- program constants
SettleDelay == 2000

Viewport == [width |-> 1280, height |-> 2000]

HeroClip_Shifted == [x |-> 80, y |-> 0, width |-> 1200, height |-> 800]

HeroClip == [x |-> 0, y |-> 0, width |-> 1200, height |-> 800]

DocPath == "landing/index.html"

FullPath == "verification/landing_page_full.png"

HeroPath == "verification/landing_page_hero.png"

\* A file of the working directory the script never names.
OtherPath == "README.md"

Paths == {DocPath, FullPath, HeroPath, OtherPath}

\* The statements of the `with` block, in program order, with hero capture
\* and settle wait exchanged.
Body_HeroBeforeWait ==
    << "launch", "new_page", "goto", "screenshot_full",
       "screenshot_hero", "wait_for_timeout", "close" >>

\* The statements of the `with` block, in program order.
Body ==
    << "launch", "new_page", "goto", "screenshot_full",
       "wait_for_timeout", "screenshot_hero", "close" >>

\* ------------------------------------------------------------------- state
VARIABLES
    pc,        \* "idle" | "body" | "exit" | "unwound" | "terminated"
    ip,        \* index into Body of the statement to execute next
    exc,       \* the exception in flight: "none" or the call that raised
    driver,    \* sync_playwright() context: "none" | "open" | "exited"
    browser,   \* "none" | "open" | "closed"
    page,      \* "none" | "open"
    dom,       \* the document loaded in the page
    elapsed,   \* ms since the page's load completed
    fs,        \* the file system: path -> [exists, data]
    trace,     \* calls made by this run, in order: [op, ok]
    writes,    \* file writes made by this run, in order: [by, path]
    outcome,   \* process exit status of this run: -1 while running
    history    \* one record per finished run: [outcome, fs]

vars == << pc, ip, exc, driver, browser, page, dom, elapsed, fs, trace,
           writes, outcome, history >>

\* ------------------------------------------------------------- file system
Absent == [exists |-> FALSE, data |-> << >>]

File(blob) == [exists |-> TRUE, data |-> << blob >>]

\* open(path, 'ab'): keeps what is there.
WriteFile_Append(f, path, blob) ==
    [f EXCEPT ![path] = [exists |-> TRUE, data |-> @.data \o << blob >>]]

\* open(path, 'wb') and write: the file is created or overwritten.
WriteFile(f, path, blob) ==
    [f EXCEPT ![path] = File(blob)]

\* A write that failed after the file was opened: created or truncated.
TruncateFile(f, path) ==
    [f EXCEPT ![path] = [exists |-> TRUE, data |-> << >>]]

\* --------------------------------------------------------------- documents
Html(animated, height) ==
    [kind |-> "html", animated |-> animated, height |-> height,
     x |-> 0, y |-> 0, width |-> 0, frame |-> 0]

Blank == Html(FALSE, 0)

DocHeights == {600, 3000}

Docs == { Html(a, h) : a \in BOOLEAN, h \in DocHeights }

Stale ==
    [kind |-> "stale", animated |-> FALSE, height |-> 0,
     x |-> 0, y |-> 0, width |-> 0, frame |-> 0]

Other ==
    [kind |-> "text", animated |-> FALSE, height |-> 0,
     x |-> 0, y |-> 0, width |-> 0, frame |-> 0]

\* --------------------------------------------------------------- rendering
Max(a, b) == IF a >= b THEN a ELSE b

Min(a, b) == IF a <= b THEN a ELSE b

\* What the page shows t ms after load: an animated document (typed text)
\* shows a different frame at every instant, a static one always the same.
FrameAt(d, t) == IF d.animated THEN t ELSE 0

\* The laid-out page: as wide as the viewport, at least as tall.
PageRect(d) ==
    [x |-> 0, y |-> 0, width |-> Viewport.width,
     height |-> Max(Viewport.height, d.height)]

ViewportRect ==
    [x |-> 0, y |-> 0, width |-> Viewport.width, height |-> Viewport.height]

\* Intersection of rectangle r with rectangle b.
Intersect(r, b) ==
    LET x0 == Max(r.x, b.x)
        y0 == Max(r.y, b.y)
        x1 == Min(r.x + r.width, b.x + b.width)
        y1 == Min(r.y + r.height, b.y + b.height)
    IN [x |-> x0, y |-> y0, width |-> Max(0, x1 - x0), height |-> Max(0, y1 - y0)]

\* An image: the page rectangle it shows and the frame it shows.
Image(r, frame) ==
    [kind |-> "png", animated |-> FALSE, height |-> r.height,
     x |-> r.x, y |-> r.y, width |-> r.width, frame |-> frame]

RectOf(img) == [x |-> img.x, y |-> img.y, width |-> img.width, height |-> img.height]

\* The crop of an image to a rectangle given in the image's coordinates.
Crop(img, r) ==
    Image(Intersect([r EXCEPT !.x = @ + img.x, !.y = @ + img.y], RectOf(img)),
          img.frame)

\* page.screenshot(full_page=True)
CaptureFull(d, t) == Image(PageRect(d), FrameAt(d, t))

\* page.screenshot(clip=r)
CaptureClip(d, t, r) == Image(Intersect(r, ViewportRect), FrameAt(d, t))

\* ------------------------------------------------------------------- Init
Init ==
    /\ pc = "idle"
    /\ ip = 1
    /\ exc = "none"
    /\ driver = "none"
    /\ browser = "none"
    /\ page = "none"
    /\ dom = Blank
    /\ elapsed = 0
    /\ \E d \in {Absent} \cup { File(x) : x \in Docs },
          o1 \in {Absent, File(Stale)},
          o2 \in {Absent, File(Stale)} :
          fs = [p \in Paths |->
                  CASE p = DocPath -> d
                    [] p = FullPath -> o1
                    [] p = HeroPath -> o2
                    [] OTHER -> File(Other)]
    /\ trace = << >>
    /\ writes = << >>
    /\ outcome = -1
    /\ history = << >>


\* ------------------------------------------------------------ control flow
\* The statement the run is at.
At(op) == pc = "body" /\ ip <= Len(Body) /\ Body[ip] = op

\* A call was made and returned (ok) or raised (~ok).
Called(op, ok) == trace' = Append(trace, [op |-> op, ok |-> ok])

\* Fall through to the next statement; after the last one, leave the block.
Advance ==
    IF ip >= Len(Body)
    THEN pc' = "exit" /\ ip' = ip
    ELSE pc' = pc /\ ip' = ip + 1

\* The exception is caught and dropped (try/except: pass around the call).
Raise_Swallowed(op) == exc' = exc /\ Advance

\* The exception leaves run() without passing a `with` statement.
Raise_NoExit(op) == exc' = op /\ pc' = "unwound" /\ ip' = ip

\* No call is wrapped in try/except: an exception raised inside the block
\* skips the rest of the block and unwinds to the `with` statement.
Raise(op) == exc' = op /\ pc' = "exit" /\ ip' = ip

\* The interpreter's exit status is 0 whatever happened.
ExitStatus_Zero(e) == 0

\* The interpreter's exit status: 0, or 1 for an uncaught exception.
ExitStatus(e) == IF e = "none" THEN 0 ELSE 1

\* ----------------------------------------------------------------- actions
\* python verify_landing.py: run() enters `with sync_playwright() as p`.
Invoke ==
    /\ pc = "idle"
    /\ \/ /\ driver' = "open"
          /\ pc' = "body"
          /\ exc' = exc
          /\ Called("sync_playwright", TRUE)
       \/ /\ driver' = driver
          /\ pc' = "unwound"
          /\ exc' = "sync_playwright"
          /\ Called("sync_playwright", FALSE)
    /\ UNCHANGED << ip, browser, page, dom, elapsed, fs, writes, outcome, history >>

\* browser = p.chromium.launch(headless=True)
Launch ==
    /\ At("launch")
    /\ \/ /\ driver = "open"
          /\ browser' = "open"
          /\ Called("launch", TRUE)
          /\ exc' = exc
          /\ Advance
       \/ /\ browser' = browser
          /\ Called("launch", FALSE)
          /\ Raise("launch")
    /\ UNCHANGED << driver, page, dom, elapsed, fs, writes, outcome, history >>

\* page = browser.new_page(viewport={'width': 1280, 'height': 2000})
NewPage ==
    /\ At("new_page")
    /\ \/ /\ browser = "open"
          /\ page' = "open"
          /\ dom' = Blank
          /\ Called("new_page", TRUE)
          /\ exc' = exc
          /\ Advance
       \/ /\ UNCHANGED << page, dom >>
          /\ Called("new_page", FALSE)
          /\ Raise("new_page")
    /\ UNCHANGED << driver, browser, elapsed, fs, writes, outcome, history >>

\* page.goto(f'file://{cwd}/landing/index.html'): returns when the load has
\* completed; raises when the file is missing.
Goto ==
    /\ At("goto")
    /\ \/ /\ page = "open"
          /\ fs[DocPath].exists
          /\ dom' = fs[DocPath].data[1]
          /\ elapsed' = 0
          /\ Called("goto", TRUE)
          /\ exc' = exc
          /\ Advance
       \/ /\ UNCHANGED << dom, elapsed >>
          /\ Called("goto", FALSE)
          /\ Raise("goto")
    /\ UNCHANGED << driver, browser, page, fs, writes, outcome, history >>

\* page.screenshot(path=..., ...): the image is taken, then the file is
\* opened and written.  A failure leaves the file untouched (before the
\* open) or created/truncated (after it).
Screenshot(op, path, d) ==
    LET t == elapsed + d IN
    \/ /\ page = "open"
       /\ elapsed' = t
       /\ fs' = WriteFile(fs, path,
                          IF op = "screenshot_full"
                          THEN CaptureFull(dom, t)
                          ELSE CaptureClip(dom, t, HeroClip))
       /\ writes' = Append(writes, [by |-> op, path |-> path])
       /\ Called(op, TRUE)
       /\ exc' = exc
       /\ Advance
    \/ /\ UNCHANGED << elapsed, fs, writes >>
       /\ Called(op, FALSE)
       /\ Raise(op)
    \/ /\ page = "open"
       /\ elapsed' = t
       /\ fs' = TruncateFile(fs, path)
       /\ writes' = Append(writes, [by |-> op, path |-> path])
       /\ Called(op, FALSE)
       /\ Raise(op)

\* The full-page capture is written to a path that is not an output path.
ScreenshotFull_ToOther ==
    /\ At("screenshot_full")
    /\ \E d \in 0..MaxJitter : Screenshot("screenshot_full", OtherPath, d)
    /\ UNCHANGED << driver, browser, page, dom, outcome, history >>

\* page.screenshot(path='verification/landing_page_full.png', full_page=True)
ScreenshotFull ==
    /\ At("screenshot_full")
    /\ \E d \in 0..MaxJitter : Screenshot("screenshot_full", FullPath, d)
    /\ UNCHANGED << driver, browser, page, dom, outcome, history >>

\* page.wait_for_timeout(2000)
WaitForTimeout ==
    /\ At("wait_for_timeout")
    /\ \/ /\ page = "open"
          /\ \E d \in 0..MaxJitter : elapsed' = elapsed + SettleDelay + d
          /\ Called("wait_for_timeout", TRUE)
          /\ exc' = exc
          /\ Advance
       \/ /\ elapsed' = elapsed
          /\ Called("wait_for_timeout", FALSE)
          /\ Raise("wait_for_timeout")
    /\ UNCHANGED << driver, browser, page, dom, fs, writes, outcome, history >>

\* The hero capture is written to the full-page capture's path.
ScreenshotHero_ToFullPath ==
    /\ At("screenshot_hero")
    /\ \E d \in 0..MaxJitter : Screenshot("screenshot_hero", FullPath, d)
    /\ UNCHANGED << driver, browser, page, dom, outcome, history >>

\* page.screenshot(path='verification/landing_page_hero.png', clip={...})
ScreenshotHero ==
    /\ At("screenshot_hero")
    /\ \E d \in 0..MaxJitter : Screenshot("screenshot_hero", HeroPath, d)
    /\ UNCHANGED << driver, browser, page, dom, outcome, history >>

\* browser.close()
Close ==
    /\ At("close")
    /\ \/ /\ browser = "open"
          /\ browser' = "closed"
          /\ page' = "none"
          /\ Called("close", TRUE)
          /\ exc' = exc
          /\ Advance
       \/ /\ UNCHANGED << browser, page >>
          /\ Called("close", FALSE)
          /\ Raise("close")
    /\ UNCHANGED << driver, dom, elapsed, fs, writes, outcome, history >>

\* The `with` statement's __exit__: runs when the block is left, normally or
\* by an exception, and does not suppress the exception.
ExitContext ==
    /\ pc = "exit"
    /\ driver' = "exited"
    /\ pc' = "unwound"
    /\ Called("__exit__", TRUE)
    /\ UNCHANGED << ip, exc, browser, page, dom, elapsed, fs, writes, outcome, history >>

\* run() has returned or raised to the module level: the process ends.
ProcessExit ==
    /\ pc = "unwound"
    /\ outcome' = ExitStatus(exc)
    /\ history' = Append(history, [outcome |-> ExitStatus(exc), fs |-> fs])
    /\ pc' = "terminated"
    /\ UNCHANGED << ip, exc, driver, browser, page, dom, elapsed, fs, trace, writes >>

\* The script is run again: a fresh process over the same file system.
Rerun ==
    /\ pc = "terminated"
    /\ Len(history) < MaxRuns
    /\ pc' = "idle"
    /\ ip' = 1
    /\ exc' = "none"
    /\ driver' = "none"
    /\ browser' = "none"
    /\ page' = "none"
    /\ dom' = Blank
    /\ elapsed' = 0
    /\ trace' = << >>
    /\ writes' = << >>
    /\ outcome' = -1
    /\ UNCHANGED << fs, history >>

Next ==
    \/ Invoke
    \/ Launch
    \/ NewPage
    \/ Goto
    \/ ScreenshotFull
    \/ WaitForTimeout
    \/ ScreenshotHero
    \/ Close
    \/ ExitContext
    \/ ProcessExit
    \/ Rerun

Spec == Init /\ [][Next]_vars

\* ------------------------------------------------------------- properties
Succeeded(op) == \E i \in 1..Len(trace) : trace[i].op = op /\ trace[i].ok

Failed(op) == \E i \in 1..Len(trace) : trace[i].op = op /\ ~trace[i].ok

AllOk == \A i \in 1..Len(trace) : trace[i].ok

Captures == {"screenshot_full", "screenshot_hero"}

PageSteps == {"goto", "wait_for_timeout"} \cup Captures

OutputPaths == {FullPath, HeroPath}

\* C1: in every run in which the launch succeeded, browser.close() has been
\* performed by the time the run ends, on every exit path.
C1_BrowserClosedOnEveryExit ==
    (pc = "terminated" /\ Succeeded("launch")) => browser = "closed"

\* C2: when landing/index.html does not exist and page.goto fails, the run
\* fails, neither output file has been written or modified, and the browser
\* acquired by launch has been released.
C2_MissingDocument ==
    (pc = "terminated" /\ ~fs[DocPath].exists /\ Failed("goto"))
        => /\ outcome # 0
           /\ writes = << >>
           /\ browser = "closed"

\* C3 (as stated): no screenshot, full-page or hero, is requested before the
\* settle wait has elapsed.
C3_NoCaptureBeforeSettled ==
    \A i \in 1..Len(trace) :
        trace[i].op \in Captures
            => \E j \in 1..(i - 1) : trace[j].op = "wait_for_timeout" /\ trace[j].ok

\* The calls of a run, in the order the amended C3 gives them.
C3_Order ==
    << "sync_playwright", "launch", "new_page", "goto", "screenshot_full",
       "wait_for_timeout", "screenshot_hero", "close" >>

\* C3 (amended): the calls of a run are made in the order launch, new page,
\* navigation, full-page capture, settle wait, hero capture, close, each one
\* only after all earlier ones completed; so the full-page capture is
\* requested after navigation and before the settle wait, and the hero
\* capture only once the settle wait has elapsed.
C3_LinearOrder ==
    \A i \in 1..Len(trace) :
        \/ trace[i].op = "__exit__"
        \/ /\ i <= Len(C3_Order)
           /\ trace[i].op = C3_Order[i]
           /\ \A j \in 1..(i - 1) : trace[j].ok

C3_Witness ==
    /\ Succeeded("screenshot_hero")
    /\ Succeeded("wait_for_timeout")
    /\ Succeeded("screenshot_full")

\* C4: when no operation fails, at the end of the run exactly two files have
\* been written, the full-page path by the full-page request and the hero
\* path by the clip request, each exactly once.
C4_TwoOutputs ==
    (pc = "terminated" /\ AllOk)
        => /\ Len(writes) = 2
           /\ \E i \in 1..2 : writes[i] = [by |-> "screenshot_full", path |-> FullPath]
           /\ \E i \in 1..2 : writes[i] = [by |-> "screenshot_hero", path |-> HeroPath]
           /\ \A p \in OutputPaths :
                /\ fs[p].exists
                /\ Len(fs[p].data) = 1
                /\ fs[p].data[1].kind = "png"

C4_Witness ==
    /\ pc = "terminated"
    /\ AllOk
    /\ Len(writes) = 2
    /\ fs[FullPath].data[1].kind = "png"
    /\ fs[HeroPath].data[1].kind = "png"

\* C5: every step, in failed runs too, changes no file other than the two
\* output paths, and every write the run has made is to one of them.
C5_Frame ==
    [][ /\ \A p \in Paths \ OutputPaths : fs'[p] = fs[p]
        /\ \A i \in 1..Len(writes') : writes'[i].path \in OutputPaths ]_vars

C5_Witness ==
    /\ pc = "terminated"
    /\ exc = "screenshot_hero"
    /\ Len(writes) = 2
    /\ fs[OtherPath] = File(Other)

\* C6: a failing step aborts the run: no navigation, wait or capture is
\* executed after it, and no step is attempted more than once.
C6_AbortNoRetry ==
    /\ \A i, j \in 1..Len(trace) : trace[i].op = trace[j].op => i = j
    /\ \A i, j \in 1..Len(trace) :
         (i < j /\ ~trace[i].ok) => trace[j].op \notin PageSteps \cup {"launch", "new_page", "close"}

C6_Witness ==
    /\ pc = "terminated"
    /\ Failed("screenshot_full")
    /\ Len(trace) = 6

\* C7: the exit status is zero if and only if every operation of the run
\* completed without failure.
C7_ExitStatus ==
    pc = "terminated" => (outcome = 0 <=> AllOk)

C7_Witness ==
    /\ pc = "terminated"
    /\ Failed("close")
    /\ outcome = 1

\* C8: for a static document, the hero capture of a successful run equals
\* the crop of that run's full-page capture to the rectangle at (0,0) of
\* width 1200 and height 800.
C8_HeroIsCropOfFull ==
    (pc = "terminated" /\ AllOk /\ ~dom.animated)
        => fs[HeroPath].data[1]
             = Crop(fs[FullPath].data[1],
                    [x |-> 0, y |-> 0, width |-> 1200, height |-> 800])

C8_Witness ==
    /\ pc = "terminated"
    /\ AllOk
    /\ ~dom.animated
    /\ dom.height = 3000
    /\ fs[HeroPath].data[1].width = 1200
    /\ fs[HeroPath].data[1].height = 800
    /\ fs[FullPath].data[1].height = 3000

\* C9: two successful runs in succession over an unchanged animation-free
\* document leave the file system as the first one left it.
C9_Idempotent ==
    \A k \in 1..(Len(history) - 1) :
        ( /\ history[k].outcome = 0
          /\ history[k + 1].outcome = 0
          /\ history[k].fs[DocPath].exists
          /\ ~history[k].fs[DocPath].data[1].animated )
            => history[k + 1].fs = history[k].fs

C9_Witness ==
    /\ Len(history) = 2
    /\ history[1].outcome = 0
    /\ history[2].outcome = 0
    /\ ~history[1].fs[DocPath].data[1].animated
    /\ history[2].fs[FullPath].data[1].kind = "png"

\* C10: the sync_playwright() context is exited on every exit path of run(),
\* also when a failing goto, wait or screenshot skips browser.close().
C10_DriverExited ==
    pc \in {"unwound", "terminated"} => driver # "open"

C10_Witness ==
    /\ pc = "terminated"
    /\ exc \in PageSteps
    /\ browser = "open"
    /\ driver = "exited"

====
